---- MODULE Spec2Model ----
(***************************************************************************)
(* Model of src/main.py: the conversion worker (ConverterThread.run) and   *)
(* the event handlers of the window (MediaConverterApp).                   *)
(*                                                                         *)
(* File names and combo-box texts are sequences of one-character strings,  *)
(* so that lower(), endswith(), split() and os.path.splitext() are         *)
(* computed and not assumed.                                               *)
(*                                                                         *)
(* The state of the window is what its handlers read back: input_file,     *)
(* the enabled flag of convert_btn, the format_combo selection and         *)
(* converter_thread.  The label texts, style sheets, the bar's value and   *)
(* visibility and the message boxes are written by the handlers and read   *)
(* by nothing in the program; they are not part of the state.              *)
(***************************************************************************)
EXTENDS Integers, Sequences, FiniteSets, TLC

\* ------------------------------------------------------------------ bounds
\* Jobs the window may start in one run of the program.
MaxJobs == 2
\* Frames cap.read() can deliver before it reports the end of the stream.
MaxFrames == 2
\* CAP_PROP_FRAME_COUNT as reported by the container lies in -MaxTotal..MaxTotal.
MaxTotal == 2
\* The user picks among the first MaxFormat items of format_combo.
MaxFormat == 2

\* --------------------------------------------------------------- strings
EmptyStr == << >>

\* str.lower() on the characters that occur in the model.
LowerChar(c) ==
  CASE c = "A" -> "a" [] c = "I" -> "i" [] c = "K" -> "k" [] c = "M" -> "m"
    [] c = "O" -> "o" [] c = "P" -> "p" [] c = "R" -> "r" [] c = "V" -> "v"
    [] OTHER -> c

Lower(s) == [i \in 1..Len(s) |-> LowerChar(s[i])]

\* str.endswith(suffix)
EndsWith(s, suffix) ==
  /\ Len(suffix) <= Len(s)
  /\ SubSeq(s, Len(s) - Len(suffix) + 1, Len(s)) = suffix

\* Index of the last "." of s that has a character other than "." before
\* it, 0 if there is none (genericpath._splitext, path without separator).
SplitDot(s) ==
  LET dots == {i \in 1..Len(s) : s[i] = "."}
      last == IF dots = {} THEN 0
              ELSE CHOOSE i \in dots : \A k \in dots : k <= i
  IN IF last > 0 /\ \E k \in 1..(last - 1) : s[k] # "." THEN last ELSE 0

\* os.path.splitext(s)[0]
SplitextRoot(s) ==
  IF SplitDot(s) = 0 THEN s ELSE SubSeq(s, 1, SplitDot(s) - 1)

\* str.split()[0]: the first whitespace-delimited word (s holds a word).
FirstWord(s) ==
  LET start == CHOOSE i \in 1..Len(s) :
                 s[i] # " " /\ \A k \in 1..(i - 1) : s[k] = " "
      stops == {i \in start..Len(s) : s[i] = " "}
      stop  == IF stops = {} THEN Len(s) + 1
               ELSE CHOOSE i \in stops : \A k \in stops : i <= k
  IN SubSeq(s, start, stop - 1)

\* ------------------------------------------------------ program constants
supported_formats ==
  << <<".", "w", "m", "v">>, <<".", "a", "s", "f">>, <<".", "m", "p", "4">>,
     <<".", "m", "o", "v">>, <<".", "a", "v", "i">>, <<".", "m", "k", "v">> >>

format_items ==
  << <<"M", "P", "4", " ", "(", "R", "e", "c", "o", "m", "m", "e", "n", "d",
       "e", "d", ")">>,
     <<"M", "O", "V">>, <<"A", "V", "I">>, <<"M", "K", "V">> >>

TempSuffix == <<"_", "t", "e", "m", "p", ".", "m", "p", "4">>

OpenErrorMessage ==
  "Could not open video file. Make sure Windows Media Player codecs are installed."

\* ------------------------------------------------------------ environment
FileWmv  == <<"a", ".", "W", "M", "V">>
FileTxt  == <<"n", ".", "t", "x", "t">>
FileGone == <<"g", ".", "a", "v", "i">>

\* Paths a drag-and-drop or the file dialog can name; FileGone never exists.
Files == {FileWmv, FileTxt, FileGone}

\* What the container of an input file holds: the frame count its
\* metadata reports (CAP_PROP_FRAME_COUNT), the frames cap.read() delivers
\* and whether AudioFileClip finds an audio track it can open.
Media ==
  [total_frames : (0 - MaxTotal)..MaxTotal, frames : 0..MaxFrames,
   audio : BOOLEAN]

\* ------------------------------------------------------------------ state
VARIABLES
  input_file,        \* MediaConverterApp.input_file
  convert_btn,       \* convert_btn.isEnabled()
  format_combo,      \* format_combo.currentIndex() + 1
  converter_thread,  \* index in jobs of self.converter_thread, 0 for None
  jobs,              \* every ConverterThread started, in start order
  queue,             \* signals emitted by workers, not yet handled by the window
  disk,              \* paths that exist in the file system
  media              \* the container the input files hold, an element of Media

vars == <<input_file, convert_btn, format_combo, converter_thread, jobs,
          queue, disk, media>>

shellVars == <<input_file, convert_btn, format_combo, converter_thread>>

ProgressEvent(p) ==
  [kind |-> "progress", percent |-> p, success |-> FALSE, message |-> ""]

FinishedEvent(ok, msg) ==
  [kind |-> "finished", percent |-> 0, success |-> ok, message |-> msg]

\* MediaConverterApp.__init__ and setup_ui: the window before any event.
InitWindow ==
  /\ input_file = EmptyStr
  /\ convert_btn = FALSE
  /\ format_combo = 1
  /\ converter_thread = 0
  /\ jobs = << >>
  /\ queue = << >>

\* The program starts on a disk with a media file and a text file; the
\* container reports its single frame correctly, with or without audio.
Init ==
  /\ InitWindow
  /\ disk = {FileWmv, FileTxt}
  /\ \E a \in BOOLEAN :
       media = [total_frames |-> 1, frames |-> 1, audio |-> a]

\* ------------------------------------------------- ConverterThread (worker)
\* ConverterThread.__init__: the fields of a thread that has not run yet,
\* with the locals of run() and a record of what run() has done.
NewThread(inp, outp) ==
  [input_file   |-> inp,
   output_file  |-> outp,
   pc           |-> "open",
   total_frames |-> 0,
   frame_count  |-> 0,
   audio_clip   |-> "unset",
   temp_output  |-> EmptyStr,
   events       |-> << >>,      \* what this thread has emitted, in order
   audio_raised |-> FALSE,      \* AudioFileClip raised
   raised       |-> "none",     \* the step whose exception reached line 107
   written      |-> FALSE]      \* write_videofile has returned

\* Thread j becomes self; what self has newly emitted is queued for the
\* window in emission order (queued signal connections, lines 423-424).
Step(j, self) ==
  /\ jobs' = [jobs EXCEPT ![j] = self]
  /\ queue' = queue \o SubSeq(self.events, Len(jobs[j].events) + 1,
                              Len(self.events))

\* int(x / y * 100) for y # 0: Python's int() truncates towards zero.  For
\* the operands that occur here the double x / y * 100 truncates to the
\* same integer as the exact quotient.
PercentOf(x, y) ==
  LET n == x * 100
      a == IF n < 0 THEN 0 - n ELSE n
      b == IF y < 0 THEN 0 - y ELSE y
      q == a \div b
  IN IF (n < 0) = (y < 0) THEN q ELSE 0 - q

Min(a, b) == IF a < b THEN a ELSE b

\* The percent as it would be without the clamp to 95.
FramePercentUnclamped(frame_count, total_frames) ==
  PercentOf(frame_count, total_frames)

\* lines 74-75: what is emitted for a written frame.
FramePercent(frame_count, total_frames) ==
  Min(PercentOf(frame_count, total_frames), 95)

\* The handler as it would be if it swallowed the exception without a signal.
ExceptSilent(self, step, msg) ==
  [self EXCEPT !.raised = step, !.pc = "done"]

\* lines 107-108, except Exception as e: the terminal failure.
Except(self, step, msg) ==
  [self EXCEPT !.events = Append(@, FinishedEvent(FALSE, msg)),
               !.raised = step,
               !.pc = "done"]

AtStep(j, step) == j \in 1..Len(jobs) /\ jobs[j].pc = step

\* The open check as it would be if run() announced progress 0 before it.
OpenFailsAfterProgress(j) ==
  /\ AtStep(j, "open")
  /\ Step(j, Except([jobs[j] EXCEPT !.events = Append(@, ProgressEvent(0))],
                    "open", OpenErrorMessage))
  /\ UNCHANGED <<shellVars, disk, media>>

\* lines 42-44: the capture cannot be opened.
OpenFails(j) ==
  /\ AtStep(j, "open")
  /\ Step(j, Except(jobs[j], "open", OpenErrorMessage))
  /\ UNCHANGED <<shellVars, disk, media>>

\* lines 42-49: the capture opens (the file must exist); metadata is read.
OpenOk(j) ==
  /\ AtStep(j, "open")
  /\ jobs[j].input_file \in disk
  /\ Step(j, [jobs[j] EXCEPT !.total_frames = media.total_frames,
                             !.pc = "audio"])
  /\ UNCHANGED <<shellVars, disk, media>>

\* The audio step as it would be if its exception reached line 107.
AudioExceptRaised(self) ==
  Except([self EXCEPT !.audio_raised = TRUE], "audio", "AudioFileClip error")

\* lines 54-55: the bare except around AudioFileClip.
AudioExcept(self) ==
  [self EXCEPT !.audio_clip = "None", !.audio_raised = TRUE, !.pc = "writer"]

\* lines 52-55: audio extraction.
ExtractAudio(j) ==
  /\ AtStep(j, "audio")
  /\ IF media.audio
     THEN Step(j, [jobs[j] EXCEPT !.audio_clip = "clip", !.pc = "writer"])
     ELSE Step(j, AudioExcept(jobs[j]))
  /\ UNCHANGED <<shellVars, disk, media>>

\* line 58
TempOutput(output_file) == SplitextRoot(output_file) \o TempSuffix

\* lines 58-62: the temporary path and the VideoWriter on it.
CreateWriter(j) ==
  /\ AtStep(j, "writer")
  /\ Step(j, [jobs[j] EXCEPT !.temp_output = TempOutput(jobs[j].output_file),
                             !.pc = "loop"])
  /\ disk' = disk \cup {TempOutput(jobs[j].output_file)}
  /\ UNCHANGED <<shellVars, media>>

\* lines 66-68, 77-78: cap.read() reports the end; both handles are released.
ReadEnd(j) ==
  /\ AtStep(j, "loop")
  /\ jobs[j].frame_count = media.frames
  /\ Step(j, [jobs[j] EXCEPT !.pc = "clip"])
  /\ UNCHANGED <<shellVars, disk, media>>

\* lines 71-72: cvtColor or out.write raises.
FrameRaises(j) ==
  /\ AtStep(j, "loop")
  /\ jobs[j].frame_count < media.frames
  /\ Step(j, Except(jobs[j], "encode", "cv2.error"))
  /\ UNCHANGED <<shellVars, disk, media>>

\* lines 73-75 after a written frame: count it, compute and emit progress.
FrameProgress(self) ==
  LET counted == [self EXCEPT !.frame_count = @ + 1]
  IN IF self.total_frames = 0
     THEN Except(counted, "progress", "division by zero")
     ELSE [counted EXCEPT
             !.events =
               Append(@, ProgressEvent(FramePercent(counted.frame_count,
                                                    self.total_frames)))]

\* lines 66-75: one iteration of the frame loop that gets a frame.
WriteFrame(j) ==
  /\ AtStep(j, "loop")
  /\ jobs[j].frame_count < media.frames
  /\ Step(j, FrameProgress(jobs[j]))
  /\ UNCHANGED <<shellVars, disk, media>>

\* line 81: VideoFileClip(temp_output) raises (always if the file is gone).
ClipRaises(j) ==
  /\ AtStep(j, "clip")
  /\ Step(j, Except(jobs[j], "clip", "VideoFileClip error"))
  /\ UNCHANGED <<shellVars, disk, media>>

\* lines 81-85: the temporary file is opened as a clip, audio attached.
ClipOk(j) ==
  /\ AtStep(j, "clip")
  /\ jobs[j].temp_output \in disk
  /\ Step(j, [jobs[j] EXCEPT !.pc = "write"])
  /\ UNCHANGED <<shellVars, disk, media>>

\* lines 87-96: write_videofile raises.
WriteRaises(j) ==
  /\ AtStep(j, "write")
  /\ Step(j, Except(jobs[j], "write", "write_videofile error"))
  /\ UNCHANGED <<shellVars, disk, media>>

\* lines 87-96: write_videofile writes the output file.
WriteOk(j) ==
  /\ AtStep(j, "write")
  /\ Step(j, [jobs[j] EXCEPT !.written = TRUE, !.pc = "cleanup"])
  /\ disk' = disk \cup {jobs[j].output_file}
  /\ UNCHANGED <<shellVars, media>>

\* line 102: os.remove(temp_output) and what it leaves on disk.
Remove(self, files) == files \ {self.temp_output}

\* lines 99-102: close the clips, remove the temporary file.
Cleanup(j) ==
  /\ AtStep(j, "cleanup")
  /\ IF jobs[j].temp_output \in disk
     THEN /\ disk' = Remove(jobs[j], disk)
          /\ Step(j, [jobs[j] EXCEPT !.pc = "emit"])
     ELSE /\ Step(j, Except(jobs[j], "remove", "FileNotFoundError"))
          /\ UNCHANGED disk
  /\ UNCHANGED <<shellVars, media>>

\* lines 104-105: the final progress and the terminal success.
Succeed(self) ==
  [self EXCEPT !.events = @ \o <<ProgressEvent(100),
                                 FinishedEvent(TRUE, "output_file")>>,
               !.pc = "done"]

\* lines 104-105
EmitSuccess(j) ==
  /\ AtStep(j, "emit")
  /\ Step(j, Succeed(jobs[j]))
  /\ UNCHANGED <<shellVars, disk, media>>

\* ConverterThread.run, one step of thread j.
Run(j) ==
  \/ OpenFails(j)
  \/ OpenOk(j)
  \/ ExtractAudio(j)
  \/ CreateWriter(j)
  \/ ReadEnd(j)
  \/ FrameRaises(j)
  \/ WriteFrame(j)
  \/ ClipRaises(j)
  \/ ClipOk(j)
  \/ WriteRaises(j)
  \/ WriteOk(j)
  \/ Cleanup(j)
  \/ EmitSuccess(j)

\* ------------------------------------------------ MediaConverterApp (window)
\* line 385: any(files[0].lower().endswith(ext) for ext in supported_formats)
IsSupported(file) ==
  \E i \in 1..Len(supported_formats) :
    EndsWith(Lower(file), supported_formats[i])

\* lines 386-390 and 401-405: a file becomes the selected input.
SetInput(file) ==
  /\ input_file' = file
  /\ convert_btn' = TRUE

\* lines 382-393: files is the list of dropped local paths.
dropEvent(files) ==
  /\ IF files # << >> /\ IsSupported(files[1])
     THEN SetInput(files[1])
     ELSE UNCHANGED <<input_file, convert_btn>>
  /\ UNCHANGED <<format_combo, converter_thread, jobs, queue, disk, media>>

\* lines 395-405: file is what the dialog returns, "" when cancelled.
select_file(file) ==
  /\ IF file # EmptyStr
     THEN SetInput(file)
     ELSE UNCHANGED <<input_file, convert_btn>>
  /\ UNCHANGED <<format_combo, converter_thread, jobs, queue, disk, media>>

\* The user picks item i of format_combo (line 205).
select_format(i) ==
  /\ format_combo' = i
  /\ UNCHANGED <<input_file, convert_btn, converter_thread, jobs, queue,
                 disk, media>>

\* lines 413-414
OutputFile(inp, item) ==
  SplitextRoot(inp) \o <<".">> \o Lower(FirstWord(item))

\* line 408: the guard of start_conversion.
InputMissing == input_file = EmptyStr \/ input_file \notin disk

\* lines 407-425: a click on the start button, which Qt delivers only
\* while the button is enabled.
start_conversion ==
  /\ convert_btn
  /\ IF InputMissing
     THEN UNCHANGED vars
     ELSE /\ Len(jobs) < MaxJobs
          /\ convert_btn' = FALSE
          /\ jobs' = Append(jobs,
                       NewThread(input_file,
                                 OutputFile(input_file,
                                            format_items[format_combo])))
          /\ converter_thread' = Len(jobs) + 1
          /\ UNCHANGED <<input_file, format_combo, queue, disk, media>>

\* lines 427-435: the slot of progress_updated, for the oldest queued signal.
update_progress ==
  /\ queue # << >>
  /\ Head(queue).kind = "progress"
  /\ queue' = Tail(queue)
  /\ UNCHANGED <<shellVars, jobs, disk, media>>

\* lines 437-458: the slot of conversion_finished, for the oldest queued signal.
conversion_complete ==
  /\ queue # << >>
  /\ Head(queue).kind = "finished"
  /\ convert_btn' = TRUE
  /\ queue' = Tail(queue)
  /\ UNCHANGED <<input_file, format_combo, converter_thread, jobs, disk, media>>

\* -------------------------------------------------------------- behaviours
Drop == \E f \in Files \cup {EmptyStr} : \E files \in {<< >>, <<f>>} : dropEvent(files)

Browse == \E f \in (Files \cap disk) \cup {EmptyStr} : select_file(f)

ChooseFormat == \E i \in 1..MaxFormat : select_format(i)

Worker == \E j \in 1..MaxJobs : Run(j)

Next ==
  \/ Drop
  \/ Browse
  \/ ChooseFormat
  \/ start_conversion
  \/ update_progress
  \/ conversion_complete
  \/ Worker

\* The whole program: the window's events and the threads it starts.
Spec == Init /\ [][Next]_vars

\* One conversion from start to end: the window right after the first
\* start_conversion (lines 407-425) on a selected file, for every item of
\* format_combo and every container in Media; the user then waits.
InitRun ==
  \E f \in {FileWmv, FileTxt} : \E i \in 1..Len(format_items) :
    /\ input_file = f
    /\ convert_btn = FALSE
    /\ format_combo = i
    /\ converter_thread = 1
    /\ jobs = <<NewThread(f, OutputFile(f, format_items[i]))>>
    /\ queue = << >>
    /\ disk = {FileWmv, FileTxt}
    /\ media \in Media

NextRun ==
  \/ update_progress
  \/ conversion_complete
  \/ Worker

SpecRun == InitRun /\ [][NextRun]_vars

\* QThread.start() runs run() on a thread of its own, which is scheduled
\* until run() returns; the window handles queued signals in its event loop.
FairRun ==
  /\ SpecRun
  /\ WF_vars(Worker)
  /\ WF_vars(update_progress)
  /\ WF_vars(conversion_complete)

\* One file name for every extension dropEvent accepts, and one in capitals.
PathInputs ==
  {<<"a">> \o supported_formats[k] : k \in 1..Len(supported_formats)}
    \cup {<<"a", ".", "M", "P", "4">>}

\* The window after select_file or dropEvent has taken one of PathInputs
\* (lines 386-388, 401-403), with any item of format_combo selected.
InitPaths ==
  /\ input_file \in PathInputs
  /\ convert_btn = TRUE
  /\ format_combo \in 1..Len(format_items)
  /\ converter_thread = 0
  /\ jobs = << >>
  /\ queue = << >>
  /\ disk = PathInputs
  /\ media = [total_frames |-> 1, frames |-> 1, audio |-> TRUE]

NextPaths ==
  \/ start_conversion
  \/ update_progress
  \/ conversion_complete
  \/ Worker

\* Conversions of the selected file into the selected container.
SpecPaths == InitPaths /\ [][NextPaths]_vars

\* ------------------------------------------------------------------ claims
Threads == 1..Len(jobs)

Done(j) == jobs[j].pc = "done"

EventsOf(j) == jobs[j].events

\* Positions of the events of thread j of one kind.
Positions(j, kind) == {i \in 1..Len(EventsOf(j)) : EventsOf(j)[i].kind = kind}

\* The steps other than audio extraction whose exception ends a job.
OtherSteps == {"open", "encode", "progress", "clip", "write", "remove"}

\* Thread j has ended with conversion_finished(True, ...).
Succeeded(j) ==
  /\ Done(j)
  /\ EventsOf(j) # << >>
  /\ EventsOf(j)[Len(EventsOf(j))].kind = "finished"
  /\ EventsOf(j)[Len(EventsOf(j))].success

\* Every thread emits at most one conversion_finished, nothing after it,
\* and a thread whose run() has returned has emitted exactly one.
OneFinishedLast ==
  \A j \in Threads :
    /\ Cardinality(Positions(j, "finished")) <= 1
    /\ \A i \in Positions(j, "finished") : i = Len(EventsOf(j))
    /\ Done(j) <=> Cardinality(Positions(j, "finished")) = 1

\* C1: every job emits progress events followed by exactly one
\* conversion_finished: never two, none before the last event, and run()
\* does return, having emitted it, after which the window has handled it.
ExactlyOneFinished ==
  /\ []OneFinishedLast
  /\ <>(queue = << >> /\ \A j \in Threads : Done(j))

\* A job that failed in the final write after it had reported progress.
FailedAfterProgress ==
  \E j \in Threads :
    Done(j) /\ jobs[j].raised = "write" /\ Positions(j, "progress") # {}

\* C2: at most one thread is running at any time.
SingleWorker ==
  Cardinality({j \in Threads : ~Done(j)}) <= 1

\* C3: the percents a thread emits are non-decreasing.
ProgressNonDecreasing ==
  \A j \in Threads :
    \A i, k \in Positions(j, "progress") :
      i < k => EventsOf(j)[i].percent <= EventsOf(j)[k].percent

\* C4: every percent is in 0..100, and the only one above 95 is the 100
\* emitted after the final write.
ProgressInRange ==
  \A j \in Threads :
    \A i \in Positions(j, "progress") :
      /\ EventsOf(j)[i].percent \in 0..100
      /\ EventsOf(j)[i].percent > 95
           => /\ EventsOf(j)[i].percent = 100
              /\ jobs[j].written
              /\ \A k \in Positions(j, "progress") : k <= i

\* C5: a 100 is emitted only after write_videofile has returned; a job that
\* succeeds has 100 as its last progress event, right before the finished
\* event; a job that fails has emitted no 100.
FinalProgressIffSuccess ==
  \A j \in Threads :
    LET ev == EventsOf(j)
        hundred == {i \in Positions(j, "progress") : ev[i].percent = 100}
    IN /\ hundred # {} => jobs[j].written
       /\ Succeeded(j) => Len(ev) >= 2 /\ ev[Len(ev) - 1] = ProgressEvent(100)
       /\ Done(j) /\ ~Succeeded(j) => hundred = {}

\* A job that succeeded after frame progress below 100.
SucceededAfterFrames ==
  \E j \in Threads : Succeeded(j) /\ Len(EventsOf(j)) >= 3

\* C6: when a job whose final write was attempted has ended, its temporary
\* file is not on disk.
TempDeletedAfterMux ==
  \A j \in Threads :
    Done(j) /\ (jobs[j].written \/ jobs[j].raised = "write")
      => jobs[j].temp_output \notin disk

OpenFailureIsClean ==
  \A j \in Threads :
    Done(j) /\ jobs[j].raised = "open"
      => /\ EventsOf(j) = <<FinishedEvent(FALSE, OpenErrorMessage)>>
         /\ jobs[j].temp_output = EmptyStr
         /\ TempOutput(jobs[j].output_file) \notin disk

\* A job that ended because its input could not be opened.
OpenFailed ==
  \E j \in Threads : Done(j) /\ jobs[j].raised = "open"

\* C9: when AudioFileClip raised, the job goes on without audio, and if no
\* other step raised it ends with conversion_finished(True, ...).
AudioFailureNotTerminal ==
  \A j \in Threads :
    jobs[j].audio_raised
      => /\ jobs[j].audio_clip = "None"
         /\ Done(j) /\ jobs[j].raised \notin OtherSteps => Succeeded(j)

\* A job that succeeded although AudioFileClip raised.
SucceededWithoutAudio ==
  \E j \in Threads :
    jobs[j].audio_raised /\ Succeeded(j) /\ jobs[j].frame_count >= 1

\* C10: a job that decoded at least one frame and in which neither the open,
\* the encode, the clip, the final write nor the removal raised ends with a
\* final progress of 100 and conversion_finished(True, ...), whatever the
\* reported total.
WrongTotalKeepsOutcome ==
  \A j \in Threads :
    /\ Done(j)
    /\ jobs[j].frame_count >= 1
    /\ jobs[j].raised \notin {"open", "encode", "clip", "write", "remove"}
    => /\ Succeeded(j)
       /\ EventsOf(j)[Len(EventsOf(j)) - 1] = ProgressEvent(100)

\* C11: the output path of a started job and its temporary path both differ
\* from its input path.
OutputApartFromInput ==
  \A j \in Threads :
    /\ jobs[j].output_file # jobs[j].input_file
    /\ TempOutput(jobs[j].output_file) # jobs[j].input_file

====
